---- MODULE Spec2Model ----
(***************************************************************************)
(* A model of dbacademy's REST client: ApiClient (rest/common.py), the     *)
(* DatabricksApiException it raises, and DoceboRestClient                  *)
(* (clients/docebo/__init__.py).  Python str values are TLA+ strings,      *)
(* Python objects are records, None is the value None below.               *)
(***************************************************************************)
EXTENDS Integers, Sequences, FiniteSets, TLC

VARIABLES self, init_args, clock, call, passed, result, parked

vars == <<self, init_args, clock, call, passed, result, parked>>

(***************************************************************************)
(* Bounds of the model.                                                    *)
(***************************************************************************)
MaxClock == 4

(***************************************************************************)
(* Python's None, where a str is expected.                                 *)
(***************************************************************************)
None == "<None>"

(***************************************************************************)
(* str methods.                                                            *)
(***************************************************************************)
StartsWith(s, p) == Len(s) >= Len(p) /\ SubSeq(s, 1, Len(p)) = p

EndsWith(s, p) == Len(s) >= Len(p) /\ SubSeq(s, Len(s) - Len(p) + 1, Len(s)) = p

Contains(s, p) == \E i \in 1..(Len(s) - Len(p) + 1) : SubSeq(s, i, i + Len(p) - 1) = p

RECURSIVE LStrip(_, _)
LStrip(s, c) == IF StartsWith(s, c) /\ Len(s) > 0 THEN LStrip(SubSeq(s, 2, Len(s)), c) ELSE s

RECURSIVE RStrip(_, _)
RStrip(s, c) == IF EndsWith(s, c) /\ Len(s) > 0 THEN RStrip(SubSeq(s, 1, Len(s) - 1), c) ELSE s

(***************************************************************************)
(* base64.standard_b64encode over the bytes of an ASCII str.               *)
(***************************************************************************)
\* The printable ASCII characters 32..95 and 97..126.
AsciiLow == " !\"#$%&'()*+,-./0123456789:;<=>?@ABCDEFGHIJKLMNOPQRSTUVWXYZ[\\]^_"

AsciiHigh == "abcdefghijklmnopqrstuvwxyz{|}~"

Ord(c) ==
    IF \E i \in 1..Len(AsciiLow) : SubSeq(AsciiLow, i, i) = c
    THEN 31 + (CHOOSE i \in 1..Len(AsciiLow) : SubSeq(AsciiLow, i, i) = c)
    ELSE 96 + (CHOOSE i \in 1..Len(AsciiHigh) : SubSeq(AsciiHigh, i, i) = c)

B64Alphabet == "ABCDEFGHIJKLMNOPQRSTUVWXYZabcdefghijklmnopqrstuvwxyz0123456789+/"

B64Char(n) == SubSeq(B64Alphabet, n + 1, n + 1)

RECURSIVE standard_b64encode(_)
standard_b64encode(s) ==
    IF Len(s) = 0 THEN ""
    ELSE LET b1 == Ord(SubSeq(s, 1, 1))
             b2 == IF Len(s) >= 2 THEN Ord(SubSeq(s, 2, 2)) ELSE 0
             b3 == IF Len(s) >= 3 THEN Ord(SubSeq(s, 3, 3)) ELSE 0
             c1 == B64Char(b1 \div 4)
             c2 == B64Char((b1 % 4) * 16 + (b2 \div 16))
             c3 == IF Len(s) >= 2 THEN B64Char((b2 % 16) * 4 + (b3 \div 64)) ELSE "="
             c4 == IF Len(s) >= 3 THEN B64Char(b3 % 64) ELSE "="
         IN  c1 \o c2 \o c3 \o c4 \o
             (IF Len(s) > 3 THEN standard_b64encode(SubSeq(s, 4, Len(s))) ELSE "")

(***************************************************************************)
(* Objects.  attrs is the set of instance attributes that have been        *)
(* assigned; url reads the class attribute (None) until __init__ assigns   *)
(* it.  error names the exception the constructor raised, "" for none.     *)
(***************************************************************************)
NoSession == [Authorization |-> None, ContentType |-> None, mounted |-> {}]

NewObject ==
    [cls |-> "ApiClient", error |-> "", attrs |-> {}, url |-> None, user |-> None,
     throttle_seconds |-> 0, read_timeout |-> 0, connect_timeout |-> 0,
     last_request_timestamp |-> 0, session |-> NoSession,
     token_requests |-> <<>>, subclients |-> {}]

NoClient == [NewObject EXCEPT !.cls = "NoneType"]

ApiClientAttrs ==
    {"url", "user", "throttle_seconds", "read_timeout", "connect_timeout",
     "_last_request_timestamp", "verbose", "session"}

\* ApiClient.__init__ applied to the object obj; a is the record of arguments
\* [url, token, user, password, authorization_header, client, throttle_seconds].
ApiClientInitBadOrder(obj, a) ==
    LET hasClient == a.client.cls # "NoneType"
        url1 == IF hasClient /\ ~Contains(a.url, "://")
                THEN LStrip(a.client.url, "/") \o "/" \o RStrip(a.url, "/")
                ELSE a.url
        hasHeader == a.authorization_header # None /\ a.authorization_header # ""
        authorization_header ==
            IF a.token # None THEN "Bearer " \o a.token
            ELSE IF hasHeader THEN a.authorization_header
            ELSE IF a.user # None /\ a.password # None
                 THEN "Basic " \o standard_b64encode(a.user \o ":" \o a.password)
            ELSE IF hasClient THEN a.client.session.Authorization
            ELSE None
        url2 == IF ~EndsWith(url1, "/") THEN url1 \o "/" ELSE url1
    IN  IF authorization_header = None
        THEN [obj EXCEPT !.error = "ValueError"]
        ELSE [obj EXCEPT !.url = url2,
                         !.user = a.user,
                         !.throttle_seconds = a.throttle_seconds,
                         !.read_timeout = 300,
                         !.connect_timeout = 5,
                         !.last_request_timestamp = 0,
                         !.attrs = ApiClientAttrs,
                         !.session = [Authorization |-> authorization_header,
                                      ContentType |-> "text/json",
                                      mounted |-> {"http://", "https://"}]]

ApiClientInitEarlyState(obj, a) ==
    LET hasClient == a.client.cls # "NoneType"
        url1 == IF hasClient /\ ~Contains(a.url, "://")
                THEN LStrip(a.client.url, "/") \o "/" \o RStrip(a.url, "/")
                ELSE a.url
        hasHeader == a.authorization_header # None /\ a.authorization_header # ""
        authorization_header ==
            IF hasHeader THEN a.authorization_header
            ELSE IF a.token # None THEN "Bearer " \o a.token
            ELSE IF a.user # None /\ a.password # None
                 THEN "Basic " \o standard_b64encode(a.user \o ":" \o a.password)
            ELSE IF hasClient THEN a.client.session.Authorization
            ELSE None
        url2 == IF ~EndsWith(url1, "/") THEN url1 \o "/" ELSE url1
        assigned == [obj EXCEPT !.url = url2,
                                !.user = a.user,
                                !.throttle_seconds = a.throttle_seconds,
                                !.read_timeout = 300,
                                !.connect_timeout = 5,
                                !.last_request_timestamp = 0,
                                !.attrs = ApiClientAttrs \ {"session"}]
    IN  IF authorization_header = None
        THEN [assigned EXCEPT !.error = "ValueError"]
        ELSE [assigned EXCEPT !.attrs = ApiClientAttrs,
                              !.session = [Authorization |-> authorization_header,
                                           ContentType |-> "text/json",
                                           mounted |-> {"http://", "https://"}]]

ApiClientInit(obj, a) ==
    LET hasClient == a.client.cls # "NoneType"
        \* line 80-81: a child of a parent client, given a relative url
        url1 == IF hasClient /\ ~Contains(a.url, "://")
                THEN LStrip(a.client.url, "/") \o "/" \o RStrip(a.url, "/")
                ELSE a.url
        \* line 83: "if authorization_header" is false for None and for ""
        hasHeader == a.authorization_header # None /\ a.authorization_header # ""
        authorization_header ==
            IF hasHeader THEN a.authorization_header
            ELSE IF a.token # None THEN "Bearer " \o a.token
            ELSE IF a.user # None /\ a.password # None
                 THEN "Basic " \o standard_b64encode(a.user \o ":" \o a.password)
            ELSE IF hasClient THEN a.client.session.Authorization
            ELSE None
        \* line 96-97
        url2 == IF ~EndsWith(url1, "/") THEN url1 \o "/" ELSE url1
    IN  IF authorization_header = None
        THEN [obj EXCEPT !.error = "ValueError"]
        ELSE [obj EXCEPT !.url = url2,
                         !.user = a.user,
                         !.throttle_seconds = a.throttle_seconds,
                         !.read_timeout = 300,
                         !.connect_timeout = 5,
                         !.last_request_timestamp = 0,
                         !.attrs = ApiClientAttrs,
                         !.session = [Authorization |-> authorization_header,
                                      ContentType |-> "text/json",
                                      mounted |-> {"http://", "https://"}]]

(***************************************************************************)
(* json.loads / Response.json on the response bodies the model uses.  The  *)
(* result is a dict (keys to values), some other JSON value, or ValueError.*)
(***************************************************************************)
EmptyDict == [k \in {} |-> ""]

JsonLoads(text) ==
    CASE text = "{\"message\": \"m\", \"error_code\": 7}" ->
            [kind |-> "dict", fields |-> [k \in {"message", "error_code"} |->
                                            IF k = "message" THEN "m" ELSE 7]]
      [] text = "{\"error\": \"e\"}" ->
            [kind |-> "dict", fields |-> [k \in {"error"} |-> "e"]]
      [] text = "{\"message\": \"m\", \"error\": \"e\"}" ->
            [kind |-> "dict", fields |-> [k \in {"message", "error"} |->
                                            IF k = "message" THEN "m" ELSE "e"]]
      [] text = "{\"access_token\": \"tok\"}" ->
            [kind |-> "dict", fields |-> [k \in {"access_token"} |-> "tok"]]
      [] text = "{}" -> [kind |-> "dict", fields |-> EmptyDict]
      [] text = "[1]" -> [kind |-> "list", fields |-> EmptyDict]
      [] OTHER -> [kind |-> "ValueError", fields |-> EmptyDict]

\* dict.get(key, default)
DictGet(d, key, default) == IF key \in DOMAIN d THEN d[key] ELSE default

\* str(x) inside an f-string
Str(x) == IF x = None THEN "None" ELSE x

(***************************************************************************)
(* DoceboRestClient.authenticate and DoceboRestClient.__init__.  resp is   *)
(* the token endpoint's answer [status_code, text].                        *)
(***************************************************************************)
\* The outcome of authenticate: the exception raised ("" for none) and the
\* access token returned.
authenticate(resp) ==
    IF resp.status_code # 200
    THEN [error |-> "AssertionError", access_token |-> None]
    ELSE LET json == JsonLoads(resp.text)
         IN  IF json.kind = "ValueError"
             THEN [error |-> "JSONDecodeError", access_token |-> None]
             ELSE IF json.kind # "dict"
             THEN [error |-> "AttributeError", access_token |-> None]
             ELSE [error |-> "", access_token |-> DictGet(json.fields, "access_token", None)]

DoceboSubClients == {"manage", "courses", "events", "sessions"}

DoceboBaseArgs(a, access_token) ==
    [url |-> a.endpoint, token |-> None, user |-> None, password |-> None,
     authorization_header |-> "Bearer " \o Str(access_token),
     client |-> NoClient, throttle_seconds |-> a.throttle_seconds]

DoceboInitBaseFirst(obj, a, resp) ==
    IF a.endpoint = None \/ a.username = None \/ a.consumer_key = None \/ a.consumer_secret = None
    THEN [obj EXCEPT !.error = "AssertionError"]
    ELSE LET based == ApiClientInit(obj, DoceboBaseArgs(a, None))
             asked == [based EXCEPT !.token_requests = <<a.endpoint \o "/oauth2/token">>]
             auth  == authenticate(resp)
         IN  IF auth.error # ""
             THEN [asked EXCEPT !.error = auth.error]
             ELSE [asked EXCEPT !.session.Authorization = "Bearer " \o Str(auth.access_token),
                                !.subclients = DoceboSubClients,
                                !.attrs = @ \cup DoceboSubClients]

DoceboInit(obj, a, resp) ==
    \* lines 38-41: the password is not asserted
    IF a.endpoint = None \/ a.username = None \/ a.consumer_key = None \/ a.consumer_secret = None
    THEN [obj EXCEPT !.error = "AssertionError"]
    ELSE LET asked == [obj EXCEPT !.token_requests = <<a.endpoint \o "/oauth2/token">>]
             auth  == authenticate(resp)
         IN  IF auth.error # ""
             THEN [asked EXCEPT !.error = auth.error]
             ELSE LET based == ApiClientInit(asked, DoceboBaseArgs(a, auth.access_token))
                  IN  IF based.error # ""
                      THEN based
                      ELSE [based EXCEPT !.subclients = DoceboSubClients,
                                         !.attrs = @ \cup DoceboSubClients]

(***************************************************************************)
(* Construction arguments.                                                 *)
(***************************************************************************)
Urls == {"http://a", "http://a/", "http://a//", "api", "api/", ""}

Tokens == {None, "t"}

Users == {None, "u", "ab"}

Passwords == {None, "p", ""}

Headers == {None, "", "Custom h"}

Throttles == {-1, 0, 2}

ArgsOf(url, token, user, password, header, client, throttle) ==
    [cls |-> "ApiClient", url |-> url, token |-> token, user |-> user, password |-> password,
     authorization_header |-> header, client |-> client, throttle_seconds |-> throttle]

\* A parent client is a client that was itself constructed.
ParentClient == ApiClientInit(NewObject, ArgsOf("http://a", "pt", None, None, None, NoClient, 0))

Parents == {NoClient, ParentClient}

CtorArgs ==
    {ArgsOf(u, t, us, pw, h, c, th) :
        u \in Urls, t \in Tokens, us \in Users, pw \in Passwords,
        h \in Headers, c \in Parents, th \in Throttles}

TokenResponses ==
    [status_code : {200, 201, 401, 500},
     text : {"{\"access_token\": \"tok\"}", "{}", "oops"}]

DoceboArgs ==
    [cls : {"DoceboRestClient"}, endpoint : {None, "http://a"}, throttle_seconds : {0, 2},
     username : {None, "u"}, password : {None, "p"},
     consumer_key : {"k"}, consumer_secret : {None, "s"},
     response : TokenResponses]

NoArgs == [cls |-> "NoneType"]

Idle == [pc |-> "idle"]

NoResult == [kind |-> "none"]

\* passed records the time at which the latest call (cur) and the call before
\* it (prev) were through with waiting in _throttle_calls: the time read on
\* line 220, or the time of the return on line 213; -1 stands for "no such
\* call yet".
NeverPassed == [prev |-> -1, cur |-> -1]

\* parked holds the call and the result of the thread that is not running.
NotParked == [call |-> Idle, result |-> NoResult]

(***************************************************************************)
(* Construction: the object is allocated in Init and one of the two        *)
(* constructors runs on it.                                                *)
(***************************************************************************)
InitCtor ==
    /\ self = NewObject
    /\ init_args = NoArgs
    /\ clock = 0
    /\ call = Idle
    /\ passed = NeverPassed
    /\ result = NoResult
    /\ parked = NotParked

Construct ==
    /\ init_args = NoArgs
    /\ \E a \in CtorArgs :
        /\ init_args' = a
        /\ self' = ApiClientInit(self, a)
    /\ UNCHANGED <<clock, call, passed, result, parked>>

ConstructDocebo ==
    /\ init_args = NoArgs
    /\ \E a \in DoceboArgs :
        /\ init_args' = a
        /\ self' = DoceboInit([self EXCEPT !.cls = "DoceboRestClient"], a, a.response)
    /\ UNCHANGED <<clock, call, passed, result, parked>>

NextCtor == Construct \/ ConstructDocebo

SpecCtor == InitCtor /\ [][NextCtor]_vars

(***************************************************************************)
(* ApiClient._verify_hostname.                                             *)
(***************************************************************************)
\* The index of the first occurrence of p in s, 0 for none.
Find(s, p) ==
    IF Contains(s, p)
    THEN CHOOSE i \in 1..(Len(s) - Len(p) + 1) :
            /\ SubSeq(s, i, i + Len(p) - 1) = p
            /\ \A j \in 1..(i - 1) : SubSeq(s, j, j + Len(p) - 1) # p
    ELSE 0

\* What follows "scheme://" in url, "" when there is no such prefix.
AfterScheme(url) ==
    IF Contains(url, "://") THEN SubSeq(url, Find(url, "://") + 3, Len(url)) ELSE ""

\* urlparse(url).hostname
Hostname(url) ==
    LET rest == AfterScheme(url)
        host == IF Contains(rest, "/") THEN SubSeq(rest, 1, Find(rest, "/") - 1) ELSE rest
    IN  IF host = "" THEN None ELSE host

\* PreparedRequest.path_url of a request without query parameters
PathUrl(url) ==
    LET rest == AfterScheme(url)
        path == IF Contains(rest, "/") THEN SubSeq(rest, Find(rest, "/"), Len(rest)) ELSE ""
    IN  IF path = "" THEN "/" ELSE path

\* The exception _verify_hostname raises, "" for none; resolves tells whether
\* the DNS lookup of the host name succeeds.
verify_hostname_Swallow(url, resolves) ==
    IF Hostname(url) = None THEN "TypeError" ELSE ""

verify_hostname(url, resolves) ==
    IF Hostname(url) = None THEN "TypeError"
    ELSE IF resolves THEN ""
    ELSE "ConnectionError"

(***************************************************************************)
(* ApiClient._throttle_calls, in its steps.                                *)
(***************************************************************************)
\* sleep_seconds, computed from the time read at line 215
sleep_seconds(c, now) == c.throttle_seconds - (now - c.last_request_timestamp)

\* The value line 220 stores: the time read after the sleep; now is the time
\* read before it.
StampStale(now, after) == now

Stamp(now, after) == after

(***************************************************************************)
(* ApiClient.api, lines 167-171: the URL of the request.                   *)
(***************************************************************************)
ResolveUrlReplace(base, path) ==
    IF StartsWith(path, base)
    THEN [error |-> "", url |-> base \o LStrip(SubSeq(path, Len(base) + 1, Len(path)), "/")]
    ELSE IF StartsWith(path, "http")
    THEN [error |-> "", url |-> path]
    ELSE [error |-> "", url |-> base \o LStrip(path, "/")]

ResolveUrl(base, path) ==
    IF StartsWith(path, base)
    THEN [error |-> "", url |-> base \o LStrip(SubSeq(path, Len(base) + 1, Len(path)), "/")]
    ELSE IF StartsWith(path, "http")
    THEN [error |-> "ValueError", url |-> None]
    ELSE [error |-> "", url |-> base \o LStrip(path, "/")]

(***************************************************************************)
(* Exceptions and return values of api().                                  *)
(***************************************************************************)
NoBody == [kind |-> "NoneType", text |-> None, fields |-> EmptyDict]

NoException ==
    [type |-> "", http_code |-> 0, message |-> None, error_code |-> 0,
     method |-> None, endpoint |-> None, body |-> NoBody]

Exception(type) == [NoException EXCEPT !.type = type]

NoneValue == [type |-> "NoneType", text |-> None, fields |-> EmptyDict]

NoRequest == [method |-> None, url |-> None]

NoResponse == [status_code |-> 0, text |-> None]

\* DatabricksApiException.__init__(http_exception=e), e carrying the request
\* and the response.  A body that is JSON but not an object has no .get:
\* AttributeError leaves the constructor instead of the exception.
DatabricksApiException(request, response) ==
    LET json == JsonLoads(response.text)
    IN  IF json.kind = "ValueError"
        THEN [type |-> "DatabricksApiException",
              body |-> [kind |-> "str", text |-> response.text, fields |-> EmptyDict],
              message |-> response.text,
              error_code |-> -1,
              method |-> request.method,
              endpoint |-> PathUrl(request.url),
              http_code |-> response.status_code]
        ELSE IF json.kind = "dict"
        THEN [type |-> "DatabricksApiException",
              body |-> [kind |-> "dict", text |-> None, fields |-> json.fields],
              message |-> DictGet(json.fields, "message",
                                  DictGet(json.fields, "error", response.text)),
              error_code |-> DictGet(json.fields, "error_code", -1),
              method |-> request.method,
              endpoint |-> PathUrl(request.url),
              http_code |-> response.status_code]
        ELSE Exception("AttributeError")

\* int(s) for a str of decimal digits
Digit(c) == CHOOSE d \in 0..9 : SubSeq("0123456789", d + 1, d + 1) = c

RECURSIVE ParseInt(_)
ParseInt(s) ==
    IF Len(s) = 0 THEN 0
    ELSE 10 * ParseInt(SubSeq(s, 1, Len(s) - 1)) + Digit(SubSeq(s, Len(s), Len(s)))

\* The status codes an "expected" argument accepts.  expected is
\* [kind, codes, text]: kind is the Python type, codes the int or the
\* container's members, text the str.
ExpectedCodes(expected) ==
    CASE expected.kind = "NoneType" -> {}
      [] expected.kind = "str" -> {ParseInt(expected.text)}
      [] OTHER -> expected.codes

IsContainer(expected) == expected.kind \in {"tuple", "list", "set"}

\* ApiClient._raise_for_status: the exception raised, NoException for none.
raise_for_status(request, response, expected) ==
    IF 200 <= response.status_code /\ response.status_code < 300 THEN NoException
    ELSE IF expected.kind \notin {"NoneType", "str", "int"} /\ ~IsContainer(expected)
    THEN Exception("ValueError")
    ELSE IF response.status_code \in ExpectedCodes(expected) THEN NoException
    ELSE IF 400 <= response.status_code /\ response.status_code < 500
    THEN DatabricksApiException(request, response)
    ELSE [Exception("HTTPError") EXCEPT !.http_code = response.status_code]

\* Response.json()
ResponseJson(response) == JsonLoads(response.text)

\* What api() returns per _return_type once _raise_for_status has passed
\* (lines 183-198).
Deserialize(response, return_type) ==
    CASE return_type = "Response" ->
            [type |-> "Response", text |-> response.text, fields |-> EmptyDict]
      [] return_type = "str" ->
            [type |-> "str", text |-> response.text, fields |-> EmptyDict]
      [] return_type = "bytes" ->
            [type |-> "bytes", text |-> response.text, fields |-> EmptyDict]
      [] return_type = "dict" ->
            IF ResponseJson(response).kind = "ValueError"
            THEN [type |-> "dict", text |-> None,
                  fields |-> [k \in {"_status", "_response"} |-> response.text]]
            ELSE [type |-> ResponseJson(response).kind, text |-> None,
                  fields |-> ResponseJson(response).fields]
      [] OTHER -> NoneValue

\* Lines 180-198.
api_returnDeserializeAccepted(response, return_type) ==
    Deserialize(response, return_type)

api_return(response, return_type) ==
    IF ~(200 <= response.status_code /\ response.status_code < 300)
    THEN NoneValue
    ELSE Deserialize(response, return_type)

(***************************************************************************)
(* Calls of api() on a constructed client.                                 *)
(***************************************************************************)
Methods == {"GET", "POST"}

Paths == {"2.0/x", "//2.0/x", "http://a/2.0/x", "http://a//x", "http://b/x", "httpx"}

Expecteds ==
    { [kind |-> "NoneType", codes |-> {}, text |-> None],
      [kind |-> "int", codes |-> {404}, text |-> None],
      [kind |-> "str", codes |-> {}, text |-> "404"],
      [kind |-> "tuple", codes |-> {302, 403}, text |-> None],
      [kind |-> "float", codes |-> {}, text |-> None] }

ReturnTypes == {"Response", "str", "bytes", "NoneType", "dict", "int"}

StatusCodes == {199, 200, 299, 300, 302, 403, 404, 500, 600}

Bodies ==
    { "{\"message\": \"m\", \"error_code\": 7}", "{\"error\": \"e\"}",
      "{\"message\": \"m\", \"error\": \"e\"}", "{}", "[1]", "oops" }

Responses == [status_code : StatusCodes, text : Bodies]

\* The clients api() is called on: constructed by ApiClient.__init__.
ApiArgs ==
    {ArgsOf(u, "t", None, None, None, NoClient, th) :
        u \in {"http://a", "http://a//", "api"}, th \in Throttles}

\* The responses and the arguments used where the timing and the order of
\* the steps of api() are explored.
FewExpecteds == {e \in Expecteds : e.kind \in {"NoneType", "int"}}

FewReturnTypes == {"dict"}

FewResponses ==
    { [status_code |-> 200, text |-> "{}"], [status_code |-> 404, text |-> "oops"],
      [status_code |-> 500, text |-> "oops"] }

\* The clients whose answers are explored in full; they do not throttle.
UnthrottledArgs == {a \in ApiArgs : a.throttle_seconds = 0 /\ a.url # "api"}

Init ==
    /\ init_args \in ApiArgs
    /\ self = ApiClientInit(NewObject, init_args)
    /\ clock = 0
    /\ call = Idle
    /\ passed = NeverPassed
    /\ result = NoResult
    /\ parked = NotParked

Raise(exc, request, response, expected, return_type) ==
    [kind |-> "raise", exc |-> exc, value |-> NoneValue, request |-> request,
     response |-> response, call |-> call, expected |-> expected,
     return_type |-> return_type, at |-> clock]

Return(value, request, response, expected, return_type) ==
    [kind |-> "return", exc |-> NoException, value |-> value, request |-> request,
     response |-> response, call |-> call, expected |-> expected,
     return_type |-> return_type, at |-> clock]

NoExpected == [kind |-> "NoneType", codes |-> {}, text |-> None]

\* api() is entered (lines 159-164) with a method and a path.
ApiBegin(methods, paths) ==
    /\ call.pc = "idle"
    /\ self.error = "" /\ "session" \in self.attrs
    /\ \E m \in methods, p \in paths :
        call' = [pc |-> "verify", method |-> m, path |-> p,
                 dns |-> "none", now |-> 0, wake_at |-> 0,
                 seen |-> 0, after |-> 0, written |-> 0, left_at |-> -1]
    /\ result' = NoResult
    /\ UNCHANGED <<self, init_args, clock, passed, parked>>

\* A path that starts with "http" without starting with the base URL.
Elsewhere(base, path) == ~StartsWith(path, base) /\ StartsWith(path, "http")

VerifyHostnameResolveFirst ==
    /\ call.pc = "verify"
    /\ IF Elsewhere(self.url, call.path)
       THEN /\ result' = Raise(Exception("ValueError"), NoRequest, NoResponse,
                               NoExpected, "NoneType")
            /\ call' = Idle
       ELSE \E resolves \in BOOLEAN :
               LET looked == [call EXCEPT !.dns = IF Hostname(self.url) = None THEN "none"
                                                   ELSE IF resolves THEN "ok" ELSE "fail"]
                   error == verify_hostname(self.url, resolves)
               IN  IF error # ""
                   THEN /\ result' = [Raise(Exception(error), NoRequest, NoResponse,
                                            NoExpected, "NoneType")
                                        EXCEPT !.call = looked]
                        /\ call' = Idle
                   ELSE /\ call' = [looked EXCEPT !.pc = "throttle"]
                        /\ UNCHANGED result
    /\ UNCHANGED <<self, init_args, clock, passed, parked>>

\* Line 165.  dns records how the lookup went.
VerifyHostname ==
    /\ call.pc = "verify"
    /\ \E resolves \in BOOLEAN :
        LET looked == [call EXCEPT !.dns = IF Hostname(self.url) = None THEN "none"
                                            ELSE IF resolves THEN "ok" ELSE "fail"]
            error == verify_hostname(self.url, resolves)
        IN  IF error # ""
            THEN /\ result' = [Raise(Exception(error), NoRequest, NoResponse,
                                     NoExpected, "NoneType")
                                 EXCEPT !.call = looked]
                 /\ call' = Idle
            ELSE /\ call' = [looked EXCEPT !.pc = "throttle"]
                 /\ UNCHANGED result
    /\ UNCHANGED <<self, init_args, clock, passed, parked>>

\* Lines 212-215: return at once, or read the clock into now.
ThrottleNow ==
    /\ call.pc = "throttle"
    /\ IF self.throttle_seconds <= 0
       THEN /\ call' = [call EXCEPT !.pc = "request", !.left_at = clock]
            /\ passed' = [prev |-> passed.cur, cur |-> clock]
       ELSE /\ call' = [call EXCEPT !.now = clock, !.pc = "elapsed"]
            /\ UNCHANGED passed
    /\ UNCHANGED <<self, init_args, clock, result, parked>>

\* Lines 216-219: read the timestamp, which may have changed since now was
\* read, and decide to sleep.  seen is the timestamp read; a sleep that starts
\* at this step ends at wake_at.
ThrottleRead ==
    /\ call.pc = "elapsed"
    /\ call' = [call EXCEPT !.seen = self.last_request_timestamp,
                            !.wake_at = clock + sleep_seconds(self, call.now),
                            !.pc = IF sleep_seconds(self, call.now) > 0
                                   THEN "sleep" ELSE "stamp"]
    /\ UNCHANGED <<self, init_args, clock, passed, result, parked>>

\* Line 219: time.sleep returns once sleep_seconds have gone by.
ThrottleSleep ==
    /\ call.pc = "sleep"
    /\ clock >= call.wake_at
    /\ call' = [call EXCEPT !.pc = "stamp"]
    /\ UNCHANGED <<self, init_args, clock, passed, result, parked>>

\* Line 220, right-hand side: time.time() is evaluated; after is its value.
ThrottleClock ==
    /\ call.pc = "stamp"
    /\ call' = [call EXCEPT !.after = clock, !.pc = "store"]
    /\ passed' = [prev |-> passed.cur, cur |-> clock]
    /\ UNCHANGED <<self, init_args, clock, result, parked>>

\* Line 220, left-hand side: the value read is stored in the attribute, at a
\* time (left_at) that may be later than the value.
ThrottleStamp ==
    /\ call.pc = "store"
    /\ self' = [self EXCEPT !.last_request_timestamp = Stamp(call.now, call.after)]
    /\ call' = [call EXCEPT !.pc = "request",
                            !.written = Stamp(call.now, call.after),
                            !.left_at = clock]
    /\ UNCHANGED <<init_args, clock, passed, result, parked>>

\* Lines 167-198: resolve the URL, send the request, classify the response
\* the server gives and build the return value.  _expected and _return_type
\* are arguments of the call; they are first read here.
ApiRequest(expecteds, return_types, responses) ==
    /\ call.pc = "request"
    /\ \E expected \in expecteds, return_type \in return_types :
        LET resolved == ResolveUrl(self.url, call.path)
            request  == [method |-> call.method, url |-> resolved.url]
        IN  IF resolved.error # ""
            THEN result' = Raise(Exception(resolved.error), NoRequest, NoResponse,
                                 expected, return_type)
            ELSE \E response \in responses :
                    LET exc == raise_for_status(request, response, expected)
                    IN  IF exc.type # ""
                        THEN result' = Raise(exc, request, response, expected, return_type)
                        ELSE result' = Return(api_return(response, return_type),
                                              request, response, expected, return_type)
    /\ call' = Idle
    /\ UNCHANGED <<self, init_args, clock, passed, parked>>

\* Time goes by.
Tick ==
    /\ clock < MaxClock
    /\ clock' = clock + 1
    /\ UNCHANGED <<self, init_args, call, passed, result, parked>>

Next ==
    \/ ApiBegin(Methods, Paths)
    \/ VerifyHostname
    \/ ThrottleNow
    \/ ThrottleRead
    \/ ThrottleSleep
    \/ ThrottleClock
    \/ ThrottleStamp
    \/ ApiRequest(FewExpecteds, FewReturnTypes, FewResponses)
    \/ Tick

Spec == Init /\ [][Next]_vars

(***************************************************************************)
(* The answers of api() in full, on clients that do not throttle: no step  *)
(* of such a call reads the clock.                                         *)
(***************************************************************************)
InitResponses ==
    /\ init_args \in UnthrottledArgs
    /\ self = ApiClientInit(NewObject, init_args)
    /\ clock = 0
    /\ call = Idle
    /\ passed = NeverPassed
    /\ result = NoResult
    /\ parked = NotParked

NextResponses ==
    \/ ApiBegin(Methods, Paths)
    \/ VerifyHostname
    \/ ThrottleNow
    \/ ApiRequest(Expecteds, ReturnTypes, Responses)

SpecResponses == InitResponses /\ [][NextResponses]_vars

(***************************************************************************)
(* Two threads calling api() on one throttled client.  call and result     *)
(* belong to the thread that is running; a thread switch may come between  *)
(* any two steps and parks them.  The steps of _throttle_calls are split   *)
(* where a switch changes what the code computes: between the two reads of *)
(* lines 215 and 216, and between the read and the store of line 220.      *)
(***************************************************************************)
ThrottledArgs == {a \in ApiArgs : a.throttle_seconds > 0 /\ a.url = "http://a"}

OneResponse == {[status_code |-> 200, text |-> "{}"]}

Switch ==
    /\ call' = parked.call
    /\ result' = parked.result
    /\ parked' = [call |-> call, result |-> result]
    /\ UNCHANGED <<self, init_args, clock, passed>>

InitThreads ==
    /\ init_args \in ThrottledArgs
    /\ self = ApiClientInit(NewObject, init_args)
    /\ clock = 0
    /\ call = Idle
    /\ passed = NeverPassed
    /\ result = NoResult
    /\ parked = NotParked

NextThreads ==
    \/ ApiBegin({"GET"}, {"2.0/x"})
    \/ VerifyHostname
    \/ ThrottleNow
    \/ ThrottleRead
    \/ ThrottleSleep
    \/ ThrottleClock
    \/ ThrottleStamp
    \/ ApiRequest({NoExpected}, FewReturnTypes, OneResponse)
    \/ Switch
    \/ Tick

SpecThreads == InitThreads /\ [][NextThreads]_vars

(***************************************************************************)
(* Properties.                                                             *)
(***************************************************************************)
Is2xx(status) == 200 <= status /\ status < 300

Is4xx(status) == 400 <= status /\ status < 500

Answered == result.kind # "none" /\ result.response # NoResponse

\* C1: api() raises exactly when the status is outside [200,300) and not
\* expected (expected being None, an int or a container of ints); what it
\* raises is a DatabricksApiException with http_code = status for 4xx and an
\* HTTPError for every other status.
C1_RaiseClassification ==
    (Answered /\ result.expected.kind \in {"NoneType", "int", "tuple"}) =>
        LET status == result.response.status_code
            accepted == Is2xx(status) \/ status \in ExpectedCodes(result.expected)
        IN  /\ (result.kind = "raise") <=> ~accepted
            /\ (result.kind = "raise") =>
                  IF Is4xx(status)
                  THEN /\ result.exc.type = "DatabricksApiException"
                       /\ result.exc.http_code = status
                  ELSE result.exc.type = "HTTPError"

\* C2 as claimed: a status outside [200,300) that was accepted through
\* expected is deserialized per the requested return type.
C2_AcceptedDeserialized ==
    (Answered /\ result.kind = "return" /\ ~Is2xx(result.response.status_code)) =>
        result.value = Deserialize(result.response, result.return_type)

\* C2: a status outside [200,300) that was accepted through expected makes
\* api() return None whatever the requested return type; the return value is
\* deserialized per return type for 2xx only; a status outside [200,300) that
\* was not accepted never returns.
C2_AcceptedReturnsNone ==
    Answered =>
        LET status == result.response.status_code
        IN  /\ (result.kind = "return" /\ ~Is2xx(status)) =>
                  /\ status \in ExpectedCodes(result.expected)
                  /\ result.value = NoneValue
            /\ (result.kind = "return" /\ Is2xx(status)) =>
                  result.value = Deserialize(result.response, result.return_type)
            /\ (~Is2xx(status) /\ status \notin ExpectedCodes(result.expected)) =>
                  result.kind = "raise"

C2_Witness ==
    /\ Answered
    /\ result.kind = "return"
    /\ result.response.status_code = 404
    /\ result.response.text = "{\"message\": \"m\", \"error_code\": 7}"
    /\ result.return_type = "dict"
    /\ result.value = NoneValue

\* C3: with throttle_seconds > 0 a call is through with the throttle step,
\* and so sends its request, no earlier than throttle_seconds after the call
\* before it was through with that step, and it stores the time it read at
\* the end of the step as the last-request timestamp; with
\* throttle_seconds <= 0 no call sleeps and the timestamp keeps its initial
\* value.
C3_Throttle ==
    /\ clock >= passed.cur
    /\ (self.throttle_seconds > 0 /\ passed.prev # -1) =>
          passed.cur >= passed.prev + self.throttle_seconds
    /\ (self.throttle_seconds > 0 /\ call.pc = "request") =>
          self.last_request_timestamp = passed.cur
    /\ (self.throttle_seconds > 0 /\ call.pc \in {"stamp", "store"}) =>
          clock >= call.wake_at
    /\ (result.kind # "none" /\ result.request # NoRequest) =>
          /\ result.at >= passed.cur
          /\ (self.throttle_seconds > 0) => result.call.written = passed.cur
    /\ (self.throttle_seconds <= 0) =>
          /\ self.last_request_timestamp = 0
          /\ call.pc \notin {"elapsed", "sleep", "stamp", "store"}

C3_Witness ==
    /\ self.throttle_seconds > 0
    /\ passed.prev # -1
    /\ result.kind # "none"
    /\ result.request # NoRequest
    /\ result.call.wake_at > result.call.now
    /\ result.call.written >= passed.prev + self.throttle_seconds

\* C4: a call whose DNS lookup fails raises ConnectionError and sends no
\* request; no call goes past the lookup, and no request is sent, unless the
\* lookup of that call succeeded.
C4_DnsBeforeRequest ==
    /\ (result.kind # "none" /\ result.call.dns = "fail") =>
          /\ result.kind = "raise"
          /\ result.exc.type = "ConnectionError"
          /\ result.request = NoRequest
    /\ (call.pc \in {"throttle", "elapsed", "sleep", "stamp", "store", "request"}) =>
          call.dns = "ok"
    /\ (result.kind # "none" /\ result.request # NoRequest) => result.call.dns = "ok"

C4_Witness ==
    /\ result.kind = "raise"
    /\ result.call.dns = "fail"
    /\ result.exc.type = "ConnectionError"
    /\ passed.cur # -1

\* C5: after construction the base URL ends with exactly one "/".
C5_ExactlyOneTrailingSlash ==
    ("url" \in self.attrs) => (EndsWith(self.url, "/") /\ ~EndsWith(self.url, "//"))

HeaderGiven(a) == a.authorization_header # None /\ a.authorization_header # ""

\* C6: the Authorization header of the session is the explicit header when
\* one is given, else "Bearer " + token, else "Basic " + base64(user:password),
\* else the parent client's header.
C6_AuthorizationHeader ==
    (init_args.cls = "ApiClient" /\ self.error = "") =>
        LET a == init_args
            header == self.session.Authorization
        IN  IF HeaderGiven(a) THEN header = a.authorization_header
            ELSE IF a.token # None THEN header = "Bearer " \o a.token
            ELSE IF a.user # None /\ a.password # None
            THEN /\ StartsWith(header, "Basic ")
                 /\ (a.user = "u" /\ a.password = "p") => header = "Basic dTpw"
                 /\ (a.user = "ab" /\ a.password = "p") => header = "Basic YWI6cA=="
                 /\ (a.user = "u" /\ a.password = "") => header = "Basic dTo="
                 /\ (a.user = "ab" /\ a.password = "") => header = "Basic YWI6"
            ELSE /\ a.client # NoClient
                 /\ header = a.client.session.Authorization
                 /\ header = "Bearer pt"

C6_Witness ==
    /\ init_args.cls = "ApiClient"
    /\ self.error = ""
    /\ init_args.token = "t"
    /\ init_args.authorization_header = "Custom h"
    /\ self.session.Authorization = "Custom h"

NoCredentials(a) ==
    /\ ~HeaderGiven(a)
    /\ a.token = None
    /\ (a.user = None \/ a.password = None)
    /\ a.client = NoClient

\* C7: construction without a token, a user and password, a header or a
\* parent client raises ValueError and leaves the object without url, session
\* or throttle timestamp.
C7_MissingCredentials ==
    (init_args.cls = "ApiClient" /\ NoCredentials(init_args)) =>
        /\ self.error = "ValueError"
        /\ self.attrs = {}
        /\ self.url = None
        /\ self.session = NoSession

C7_Witness ==
    /\ init_args.cls = "ApiClient"
    /\ init_args.user = "u"
    /\ init_args.password = None
    /\ init_args.url = "http://a"
    /\ self.error = "ValueError"

DoceboArgsGiven(a) ==
    a.endpoint # None /\ a.username # None /\ a.consumer_key # None /\ a.consumer_secret # None

\* C10: DoceboRestClient asks for its token before it initialises the base
\* client: an answer other than 200 raises AssertionError and leaves the
\* object without Authorization header, session and sub-clients; a client
\* that was built has asked for its token.
C10_TokenBeforeInit ==
    (init_args.cls = "DoceboRestClient" /\ DoceboArgsGiven(init_args)) =>
        /\ self.token_requests = <<init_args.endpoint \o "/oauth2/token">>
        /\ (init_args.response.status_code # 200) =>
              /\ self.error = "AssertionError"
              /\ self.attrs = {}
              /\ self.session = NoSession
              /\ self.subclients = {}
        /\ (self.session # NoSession) =>
              /\ init_args.response.status_code = 200
              /\ self.subclients = DoceboSubClients

C10_Witness ==
    /\ init_args.cls = "DoceboRestClient"
    /\ init_args.response.status_code = 401
    /\ self.error = "AssertionError"
    /\ Len(self.token_requests) = 1

\* C8: a path that starts with the base URL is used without that prefix; any
\* other path that starts with "http" raises ValueError and no request is
\* sent; any other path is appended to the base URL without its leading "/";
\* every URL requested starts with the base URL.
C8_UrlResolution ==
    (result.kind # "none" /\ result.call.dns = "ok") =>
        LET path == result.call.path
            base == self.url
        IN  /\ IF StartsWith(path, base)
               THEN result.request.url =
                        base \o LStrip(SubSeq(path, Len(base) + 1, Len(path)), "/")
               ELSE IF StartsWith(path, "http")
               THEN /\ result.kind = "raise"
                    /\ result.exc.type = "ValueError"
                    /\ result.request = NoRequest
               ELSE result.request.url = base \o LStrip(path, "/")
            /\ (base = "http://a/" /\ path \in {"2.0/x", "//2.0/x", "http://a/2.0/x"}) =>
                  result.request.url = "http://a/2.0/x"
            /\ (base = "http://a/" /\ path = "http://a//x") => result.request.url = "http://a/x"
            /\ (result.request # NoRequest) => StartsWith(result.request.url, base)

C8_Witness ==
    /\ result.kind = "raise"
    /\ result.call.dns = "ok"
    /\ result.call.path = "http://a/2.0/x"
    /\ self.url = "http://a//"
    /\ result.exc.type = "ValueError"
    /\ result.request = NoRequest

\* C9: the DatabricksApiException built for a 4xx answer carries the method,
\* the endpoint path and the status; from a JSON body it takes message (else
\* error, else the text) and error_code (else -1); from any other body it
\* takes the text and -1; nothing else is raised for any body.
C9_ExceptionFields ==
    (Answered /\ result.kind = "raise" /\ Is4xx(result.response.status_code)
        /\ result.expected.kind # "float" /\ result.expected.kind # "str") =>
        LET exc == result.exc
            text == result.response.text
            json == JsonLoads(text)
        IN  /\ exc.type = "DatabricksApiException"
            /\ exc.method = result.call.method
            /\ exc.endpoint = PathUrl(result.request.url)
            /\ exc.http_code = result.response.status_code
            /\ IF json.kind = "ValueError"
               THEN /\ exc.body.text = text
                    /\ exc.message = text
                    /\ exc.error_code = -1
               ELSE /\ exc.message =
                          IF "message" \in DOMAIN json.fields THEN json.fields["message"]
                          ELSE IF "error" \in DOMAIN json.fields THEN json.fields["error"]
                          ELSE text
                    /\ exc.error_code =
                          IF "error_code" \in DOMAIN json.fields
                          THEN json.fields["error_code"] ELSE -1

\* C11 as claimed: the URL is resolved first, so a call whose path is an
\* absolute URL pointing elsewhere raises ValueError without a DNS lookup.
C11_ResolveBeforeLookup ==
    (result.kind # "none" /\ Elsewhere(self.url, result.call.path)) =>
        /\ result.exc.type = "ValueError"
        /\ result.call.dns = "none"

\* C11: api() looks up the host first, then throttles, then resolves the URL,
\* then sends the request.  A call whose path is an absolute URL pointing
\* elsewhere raises ValueError only once its lookup has succeeded and its
\* throttle step has run (the timestamp is updated when throttle_seconds > 0),
\* and before any request; when the lookup fails it raises the lookup's error.
C11_LookupThrottleResolve ==
    /\ (result.kind # "none" /\ Elsewhere(self.url, result.call.path)) =>
          /\ result.kind = "raise"
          /\ result.request = NoRequest
          /\ IF result.call.dns = "ok"
             THEN /\ result.exc.type = "ValueError"
                  /\ passed.cur # -1
                  /\ (self.throttle_seconds > 0) =>
                        /\ self.last_request_timestamp = passed.cur
                        /\ self.last_request_timestamp >= self.throttle_seconds
             ELSE result.exc.type \in {"ConnectionError", "TypeError"}
    /\ (result.kind # "none" /\ result.request # NoRequest) =>
          /\ result.call.dns = "ok"
          /\ passed.cur # -1
          /\ ~Elsewhere(self.url, result.call.path)

C11_Witness ==
    /\ result.kind = "raise"
    /\ result.exc.type = "ValueError"
    /\ result.call.path = "http://b/x"
    /\ result.call.dns = "ok"
    /\ self.throttle_seconds > 0
    /\ self.last_request_timestamp >= self.throttle_seconds

\* Both threads have sent the request of their latest call.
BothRequested ==
    /\ result.kind # "none" /\ result.request # NoRequest
    /\ parked.result.kind # "none" /\ parked.result.request # NoRequest

\* Result b's call read, in _throttle_calls, a timestamp at least as late as
\* the one result a's call wrote.
ReadAfterWrite(a, b) == b.call.seen >= a.call.written

\* Result b's call was through with waiting in _throttle_calls (line 220 read
\* the clock), and sent its request, at least throttle_seconds after result
\* a's call was.
Spaced(a, b) ==
    /\ b.call.after >= a.call.after + self.throttle_seconds
    /\ b.at >= a.call.after + self.throttle_seconds

Distance(x, y) == IF x >= y THEN x - y ELSE y - x

\* C12: with two threads on one client the throttle keeps two calls apart only
\* when one of them read the timestamp after the other had written it; there
\* is an interleaving (witness) where both read before either wrote and both
\* requests are sent less than throttle_seconds apart.
C12_SpacedUnlessInterleaved ==
    BothRequested =>
        /\ ReadAfterWrite(result, parked.result) => Spaced(result, parked.result)
        /\ ReadAfterWrite(parked.result, result) => Spaced(parked.result, result)

C12_Witness ==
    /\ self.throttle_seconds > 0
    /\ BothRequested
    /\ result.call.seen < parked.result.call.written
    /\ parked.result.call.seen < result.call.written
    /\ result.call.wake_at > result.call.now
    /\ parked.result.call.wake_at > parked.result.call.now
    /\ Distance(result.call.after, parked.result.call.after) < self.throttle_seconds
    /\ Distance(result.at, parked.result.at) < self.throttle_seconds

====
